---- MODULE Spec2Model ----
(***************************************************************************)
(* A model of the session-lifecycle client of mcp-claude-hub               *)
(* (src/mcp_server.py, class ClaudeOrchestrationMCP): create_session and   *)
(* its local validation, the payload it sends, and the polling loop of     *)
(* wait_for_session.                                                       *)
(*                                                                         *)
(* Python values are modelled as tagged records so that values of          *)
(* different Python types can be told apart: None, bool, str, list, dict.  *)
(* Strings whose characters the code inspects (split, strip, lower) are    *)
(* sequences of one-character strings.                                     *)
(***************************************************************************)
EXTENDS Integers, Sequences, FiniteSets, TLC

VARIABLES
    op,          \* the operation called on the client ("none" before the call)
    args,        \* the arguments of that call
    sent,        \* the payloads the call has posted to the remote API, in order
    lastReply,   \* what the remote API answered to the latest of them
    result,      \* the value the call returned (NoResult while it runs)
    pc,          \* wait_for_session: where the coroutine stands
    now,         \* the event loop's clock, loop.time(), in seconds
    start_time,  \* wait_for_session: start_time
    queryTimes,  \* wait_for_session: the clock at its two latest status queries
    lastStatus,  \* wait_for_session: what the latest answered status query reported
    lastLatency, \* wait_for_session: the seconds its latest answered request took
    allRunning,  \* wait_for_session: every status query so far reported running
    abortedAt,   \* wait_for_session: the number of requests posted when its caller
                 \* aborted, -1 while the caller has not
    sessions,    \* SessionMonitor: self.sessions, the session data held for each id
    all_complete,\* SessionMonitor.monitor_sessions: all_complete
    unpolled,    \* SessionMonitor.monitor_sessions: the ids this round has yet to query
    waits        \* two wait_for_session coroutines on one client: the frame of each

vars == <<op, args, sent, lastReply, result, pc, now, start_time, queryTimes,
          lastStatus, lastLatency, allRunning, abortedAt, sessions, all_complete,
          unpolled, waits>>

-----------------------------------------------------------------------------
(* Bounds of the model. *)

MaxRepoLen == 5
MaxReqLen == 2
MaxDeps == 4
MaxCsvLen == 3

-----------------------------------------------------------------------------
(* Python values. *)

PyNone == [t |-> "null"]
PyBool(b) == [t |-> "bool", v |-> b]
PyStr(s) == [t |-> "str", v |-> s]
PyFmt(template, fmtargs) == [t |-> "str", v |-> template, args |-> fmtargs]
PyChars(cs) == [t |-> "chars", v |-> cs]
PyInt(n) == [t |-> "int", v |-> n]
PyList(l) == [t |-> "list", v |-> l]
PyDict(f) == [t |-> "dict", v |-> f]
EmptyDict == PyDict(<<>>)

isinstance_dict(x) == x.t = "dict"
isinstance_list(x) == x.t = "list"

\* Python truthiness: bool(x)
Truthy(x) ==
    CASE x.t = "null" -> FALSE
      [] x.t = "bool" -> x.v
      [] x.t = "str" -> x.v # ""
      [] x.t = "chars" -> x.v # <<>>
      [] x.t = "int" -> x.v # 0
      [] x.t = "list" -> x.v # <<>>
      [] x.t = "dict" -> DOMAIN x.v # {}

\* key in d
HasKey(d, k) == k \in DOMAIN d.v

\* d.get(k, default); d.get(k) is DictGet(d, k, PyNone)
DictGet(d, k, default) == IF k \in DOMAIN d.v THEN d.v[k] ELSE default

-----------------------------------------------------------------------------
(* Strings as character sequences. *)

Whitespace == {" ", "\t"}

RECURSIVE split(_, _)
\* str.split(sep) for a one-character separator
split(s, sep) ==
    IF s = <<>> THEN << <<>> >>
    ELSE IF Head(s) = sep THEN << <<>> >> \o split(Tail(s), sep)
    ELSE LET rest == split(Tail(s), sep)
         IN  << <<Head(s)>> \o Head(rest) >> \o Tail(rest)

RECURSIVE lstrip(_)
lstrip(s) == IF s # <<>> /\ Head(s) \in Whitespace THEN lstrip(Tail(s)) ELSE s

RECURSIVE rstrip(_)
rstrip(s) ==
    IF s # <<>> /\ s[Len(s)] \in Whitespace THEN rstrip(SubSeq(s, 1, Len(s) - 1)) ELSE s

\* str.strip()
strip(s) == rstrip(lstrip(s))

\* sep in s
Contains(s, c) == \E i \in DOMAIN s : s[i] = c

lower_char(c) ==
    CASE c = "N" -> "n"
      [] c = "O" -> "o"
      [] c = "E" -> "e"
      [] c = "A" -> "a"
      [] OTHER -> c

\* str.lower()
lower(s) == [i \in DOMAIN s |-> lower_char(s[i])]

\* All strings over an alphabet up to a length.
StringsUpTo(alphabet, n) == UNION {[1..k -> alphabet] : k \in 0..n}

-----------------------------------------------------------------------------
(* The transport: what one POST to the remote API may come back with. *)

\* the request raised httpx.HTTPError (connection failure, timeout, non-2xx status)
HTTPErrorReply(msg) == [kind |-> "HTTPError", msg |-> msg]
\* the body is not JSON: response.json() raises, and nothing catches it
InvalidJsonReply == [kind |-> "invalid_json"]
\* a 2xx response with a JSON body
JsonReply(body) == [kind |-> "json", body |-> body]

Raised(exc) == [t |-> "raise", v |-> exc]
IsRaised(x) == x.t = "raise"

type_name(x) ==
    CASE x.t = "null" -> "NoneType"
      [] x.t = "bool" -> "bool"
      [] x.t = "str" -> "str"
      [] x.t = "int" -> "int"
      [] x.t = "list" -> "list"
      [] x.t = "dict" -> "dict"

\* The webhook-handler envelope the client builds for a failure.
FailureEnvelope(event, handlerCount, error) ==
    PyDict("message" :> PyStr("Webhook processing failed")
        @@ "event" :> PyStr(event)
        @@ "handlerCount" :> PyInt(handlerCount)
        @@ "results" :> PyList(<<PyDict("success" :> PyBool(FALSE) @@ "error" :> error)>>))

\* a variant that passes a flat {success, data, error} body through unwrapped
make_request_NoWrap(payload, reply) ==
    CASE reply.kind = "HTTPError" ->
            FailureEnvelope(payload.type, 0, PyFmt("API request failed: {}", <<reply.msg>>))
      [] reply.kind = "invalid_json" -> Raised("JSONDecodeError")
      [] reply.kind = "json" ->
            IF ~isinstance_dict(reply.body)
            THEN FailureEnvelope(payload.type, 0,
                     PyFmt("Invalid response format: expected dictionary, got {}",
                           <<type_name(reply.body)>>))
            ELSE reply.body

\* a variant that lets httpx.HTTPError propagate
make_request_NoExcept(payload, reply) ==
    CASE reply.kind = "HTTPError" -> Raised("HTTPError")
      [] reply.kind = "invalid_json" -> Raised("JSONDecodeError")
      [] reply.kind = "json" ->
            IF ~isinstance_dict(reply.body)
            THEN FailureEnvelope(payload.type, 0,
                     PyFmt("Invalid response format: expected dictionary, got {}",
                           <<type_name(reply.body)>>))
            ELSE IF HasKey(reply.body, "success") /\ ~HasKey(reply.body, "results")
            THEN LET ok == Truthy(DictGet(reply.body, "success", PyNone)) IN
                 PyDict("message" :> PyStr(IF ok THEN "Webhook processed"
                                                 ELSE "Webhook processing failed")
                     @@ "event" :> PyStr(payload.type)
                     @@ "handlerCount" :> PyInt(IF ok THEN 1 ELSE 0)
                     @@ "results" :> PyList(<<PyDict(
                            "success" :> PyBool(ok)
                         @@ "message" :> DictGet(reply.body, "message", PyStr(""))
                         @@ "data" :> DictGet(reply.body, "data", EmptyDict)
                         @@ "error" :> DictGet(reply.body, "error", PyNone))>>))
            ELSE reply.body

\* ClaudeOrchestrationMCP._make_request, given what the POST came back with
make_request(payload, reply) ==
    CASE reply.kind = "HTTPError" ->
            FailureEnvelope(payload.type, 0, PyFmt("API request failed: {}", <<reply.msg>>))
      [] reply.kind = "invalid_json" -> Raised("JSONDecodeError")
      [] reply.kind = "json" ->
            LET data == reply.body IN
            IF ~isinstance_dict(data)
            THEN FailureEnvelope(payload.type, 0,
                     PyFmt("Invalid response format: expected dictionary, got {}",
                           <<type_name(data)>>))
            ELSE IF HasKey(data, "success") /\ ~HasKey(data, "results")
            THEN LET ok == Truthy(DictGet(data, "success", PyNone)) IN
                 PyDict("message" :> PyStr(IF ok THEN "Webhook processed"
                                                 ELSE "Webhook processing failed")
                     @@ "event" :> PyStr(payload.type)
                     @@ "handlerCount" :> PyInt(IF ok THEN 1 ELSE 0)
                     @@ "results" :> PyList(<<PyDict(
                            "success" :> PyBool(ok)
                         @@ "message" :> DictGet(data, "message", PyStr(""))
                         @@ "data" :> DictGet(data, "data", EmptyDict)
                         @@ "error" :> DictGet(data, "error", PyNone))>>))
            ELSE data

-----------------------------------------------------------------------------
(* create_session *)

valid_session_types == {"implementation", "analysis", "testing", "review", "coordination"}

InvalidSessionTypeError(session_type) ==
    PyFmt("Invalid session type: {}. Must be one of: {}",
          <<session_type, "analysis, coordination, implementation, review, testing">>)
InvalidRepositoryError ==
    PyStr("Invalid repository format. Must be in 'owner/repo' format")
InvalidRepositoryPartsError ==
    PyStr("Invalid repository format. Must be in 'owner/repo' format with non-empty owner and repo names")
EmptyRequirementsError == PyStr("Requirements cannot be empty")

\* if session_type not in valid_session_types
SessionTypeRejected(session_type) == session_type \notin valid_session_types

\* if not repository or "/" not in repository
RepositoryFormatRejected(repository) == repository = <<>> \/ ~Contains(repository, "/")

\* a variant that forgets to count the parts
RepositoryPartsRejected_NoCount(repository) ==
    LET parts == split(repository, "/")
    IN  parts[1] = <<>> \/ parts[2] = <<>>

\* parts = repository.split("/"); if len(parts) != 2 or not parts[0] or not parts[1]
RepositoryPartsRejected(repository) ==
    LET parts == split(repository, "/")
    IN  Len(parts) # 2 \/ parts[1] = <<>> \/ parts[2] = <<>>

\* a variant that forgets strip()
RequirementsRejected_NoStrip(requirements) == requirements = <<>>

\* if not requirements or not requirements.strip()
RequirementsRejected(requirements) ==
    requirements = <<>> \/ strip(requirements) = <<>>

\* a variant that checks the requirements before the repository
ValidationFailure_RequirementsFirst(session_type, repository, requirements) ==
    IF SessionTypeRejected(session_type)
    THEN FailureEnvelope("session.create", 0, InvalidSessionTypeError(session_type))
    ELSE IF RequirementsRejected(requirements)
    THEN FailureEnvelope("session.create", 0, EmptyRequirementsError)
    ELSE IF RepositoryFormatRejected(repository)
    THEN FailureEnvelope("session.create", 0, InvalidRepositoryError)
    ELSE IF RepositoryPartsRejected(repository)
    THEN FailureEnvelope("session.create", 0, InvalidRepositoryPartsError)
    ELSE PyNone

\* The local checks, in the order of the code: the failure create_session returns
\* before any request, or PyNone when every check passes.
ValidationFailure(session_type, repository, requirements) ==
    IF SessionTypeRejected(session_type)
    THEN FailureEnvelope("session.create", 0, InvalidSessionTypeError(session_type))
    ELSE IF RepositoryFormatRejected(repository)
    THEN FailureEnvelope("session.create", 0, InvalidRepositoryError)
    ELSE IF RepositoryPartsRejected(repository)
    THEN FailureEnvelope("session.create", 0, InvalidRepositoryPartsError)
    ELSE IF RequirementsRejected(requirements)
    THEN FailureEnvelope("session.create", 0, EmptyRequirementsError)
    ELSE PyNone

\* a variant that always sends context and branch
ProjectData_AlwaysSent(repository, requirements, context, branch) ==
       "repository" :> PyChars(repository)
    @@ "requirements" :> PyChars(requirements)
    @@ "context" :> context
    @@ "branch" :> branch

\* project_data
ProjectData(repository, requirements, context, branch) ==
       "repository" :> PyChars(repository)
    @@ "requirements" :> PyChars(requirements)
    @@ (IF Truthy(context) THEN "context" :> context ELSE <<>>)
    @@ (IF Truthy(branch) THEN "branch" :> branch ELSE <<>>)

\* a variant that forgets lower()
KeepDependency_CaseSensitive(dep) == dep # <<>> /\ dep # <<"n", "o", "n", "e">>

\* if dep and dep.lower() != 'none'
KeepDependency(dep) == dep # <<>> /\ lower(dep) # <<"n", "o", "n", "e">>

\* valid_deps
ValidDeps(dependencies) ==
    IF Truthy(dependencies) THEN SelectSeq(dependencies.v, KeepDependency) ELSE <<>>

CreatePayload(session_type, repository, requirements, context, branch, dependencies) ==
    [type |-> "session.create",
     session |-> [type |-> session_type,
                  project |-> ProjectData(repository, requirements, context, branch),
                  dependencies |-> ValidDeps(dependencies)]]

\* a variant that looks under data.session first
ExtractSessionId_SessionFirst(data) ==
    IF ~isinstance_dict(data) THEN PyNone
    ELSE LET id1 == IF HasKey(data, "session") /\ isinstance_dict(data.v["session"])
                    THEN DictGet(data.v["session"], "id", PyNone) ELSE PyNone
         IN  IF ~Truthy(id1) THEN DictGet(data, "sessionId", PyNone) ELSE id1

\* session_id: data.get("sessionId"), then data["session"].get("id")
ExtractSessionId(data) ==
    IF ~isinstance_dict(data) THEN PyNone
    ELSE LET id1 == DictGet(data, "sessionId", PyNone) IN
         IF ~Truthy(id1) /\ HasKey(data, "session") /\ isinstance_dict(data.v["session"])
         THEN DictGet(data.v["session"], "id", PyNone)
         ELSE id1

\* a variant that reports the creation whether or not an id was found
SessionCreated_Unchecked(session_id, data) ==
    PyDict("message" :> PyStr("Webhook processed")
        @@ "event" :> PyStr("session.create")
        @@ "handlerCount" :> PyInt(1)
        @@ "results" :> PyList(<<PyDict(
               "success" :> PyBool(TRUE)
            @@ "message" :> PyStr("Session created")
            @@ "data" :> PyDict(
                   "sessionId" :> session_id
                @@ "status" :> IF isinstance_dict(data)
                               THEN DictGet(data, "status", PyStr("pending"))
                               ELSE PyStr("pending")))>>))

\* if session_id: the success envelope; else: "Session ID not found in API response"
SessionCreated(session_id, data) ==
    IF Truthy(session_id)
    THEN PyDict("message" :> PyStr("Webhook processed")
             @@ "event" :> PyStr("session.create")
             @@ "handlerCount" :> PyInt(1)
             @@ "results" :> PyList(<<PyDict(
                    "success" :> PyBool(TRUE)
                 @@ "message" :> PyStr("Session created")
                 @@ "data" :> PyDict(
                        "sessionId" :> session_id
                     @@ "status" :> DictGet(data, "status", PyStr("pending"))))>>))
    ELSE FailureEnvelope("session.create", 0,
                         PyStr("Session ID not found in API response"))

\* What create_session makes of the result of _make_request.
CreateResult(res) ==
    IF IsRaised(res) THEN res
    ELSE IF HasKey(res, "results") /\ isinstance_list(res.v["results"])
            /\ Len(res.v["results"].v) > 0
    THEN LET first_result == res.v["results"].v[1] IN
         IF isinstance_dict(first_result) /\ Truthy(DictGet(first_result, "success", PyNone))
         THEN LET data == DictGet(first_result, "data", EmptyDict)
              IN  SessionCreated(ExtractSessionId(data), data)
         ELSE res
    ELSE res

\* a variant that posts the request once more when it failed
create_session_Retry(session_type, repository, requirements, context, branch, dependencies, reply) ==
    LET failure == ValidationFailure(session_type, repository, requirements)
        payload == CreatePayload(session_type, repository, requirements,
                                 context, branch, dependencies)
    IN  IF failure # PyNone
        THEN [sent |-> <<>>, result |-> failure]
        ELSE [sent |-> IF reply.kind = "HTTPError" THEN <<payload, payload>>
                       ELSE <<payload>>,
              result |-> CreateResult(make_request(payload, reply))]

\* ClaudeOrchestrationMCP.create_session: the payloads it posts and what it returns,
\* given what the POST (if any) comes back with.
create_session(session_type, repository, requirements, context, branch, dependencies, reply) ==
    LET failure == ValidationFailure(session_type, repository, requirements)
        payload == CreatePayload(session_type, repository, requirements,
                                 context, branch, dependencies)
    IN  IF failure # PyNone
        THEN [sent |-> <<>>, result |-> failure]
        ELSE [sent |-> <<payload>>, result |-> CreateResult(make_request(payload, reply))]

JsonDumps(x) == [t |-> "json_text", v |-> x]

\* create_session_sync: the Gradio wrapper; its arguments are the form's strings
create_session_sync_args(context, branch, dependencies) ==
    [context |-> IF context # <<>> THEN PyChars(context) ELSE PyNone,
     branch |-> IF branch # <<>> THEN PyChars(branch) ELSE PyNone,
     dependencies |->
        IF dependencies # <<>>
        THEN LET parts == split(dependencies, ",")
                 kept == SelectSeq(parts, LAMBDA d : strip(d) # <<>>)
             IN  PyList([i \in DOMAIN kept |-> strip(kept[i])])
        ELSE PyNone]

-----------------------------------------------------------------------------
(* The inputs the model draws. *)

NoResult == [t |-> "running"]
NoReply == [kind |-> "none"]

SessionTypeInputs == valid_session_types \cup {"documentation", "invalid_type", ""}
RepositoryInputs == StringsUpTo({"o", "/"}, MaxRepoLen)
RequirementsInputs == StringsUpTo({"r", " ", "\t"}, MaxReqLen)
OptionalStringInputs == {PyNone, PyChars(<<>>), PyChars(<<"c">>)}
DependencyInputs ==
    {<<>>, <<" ">>, <<"a">>, <<"b">>, <<"N", "o", "n", "e">>, <<"n", "o", "n", "e">>}
DependenciesInputs ==
    {PyNone} \cup {PyList(l) : l \in StringsUpTo(DependencyInputs, MaxDeps)}
CsvInputs == StringsUpTo({"a", ",", " "}, MaxCsvLen)

SessionData(id) == PyDict("id" :> PyStr(id) @@ "status" :> PyStr("pending"))

\* What the remote API may answer to session.create.
CreateReplies ==
    { HTTPErrorReply("Server error '500 Internal Server Error'"),
      InvalidJsonReply,
      JsonReply(PyList(<<>>)),
      JsonReply(PyDict("success" :> PyBool(TRUE)
                    @@ "data" :> PyDict("sessionId" :> PyStr("s-1")))),
      JsonReply(PyDict("success" :> PyBool(TRUE)
                    @@ "data" :> PyDict("session" :> SessionData("s-1")))),
      JsonReply(PyDict("success" :> PyBool(TRUE) @@ "data" :> EmptyDict)),
      JsonReply(PyDict("success" :> PyBool(FALSE) @@ "error" :> PyStr("Unauthorized"))),
      JsonReply(PyDict("results" :> PyList(<<PyDict(
          "success" :> PyBool(TRUE)
       @@ "data" :> PyDict("session" :> SessionData("s-1")))>>))),
      JsonReply(PyDict("results" :> PyList(<<>>))),
      JsonReply(PyDict("message" :> PyStr("Webhook processed"))) }

\* A success and a failure, for the calls whose other inputs vary widely.
FewCreateReplies ==
    { HTTPErrorReply("Server error '500 Internal Server Error'"),
      JsonReply(PyDict("success" :> PyBool(TRUE)
                    @@ "data" :> PyDict("sessionId" :> PyStr("s-1")))) }

CreateArgs(session_type, repository, requirements, context, branch, dependencies) ==
    [session_type |-> session_type, repository |-> repository,
     requirements |-> requirements, context |-> context, branch |-> branch,
     dependencies |-> dependencies]

-----------------------------------------------------------------------------
(* State and actions. *)

WaitIdle ==
    /\ pc = "idle" /\ now = 0 /\ start_time = 0
    /\ queryTimes = <<>> /\ lastStatus = "none" /\ lastLatency = 0
    /\ allRunning = TRUE

Init ==
    /\ op = "none" /\ args = <<>> /\ sent = <<>> /\ lastReply = NoReply
    /\ result = NoResult
    /\ WaitIdle
    /\ abortedAt = -1
    /\ sessions = <<>> /\ all_complete = TRUE /\ unpolled = <<>>
    /\ waits = <<>>

waitVars == <<pc, now, start_time, queryTimes, lastStatus, lastLatency, allRunning>>
monitorVars == <<sessions, all_complete, unpolled>>

\* One call of create_session on a fresh client, from its arguments to its return.
DoCreateSession(opname, a, reply) ==
    LET r == create_session(a.session_type, a.repository, a.requirements,
                            a.context, a.branch, a.dependencies, reply)
    IN  /\ op' = opname
        /\ args' = a
        /\ sent' = r.sent
        /\ lastReply' = IF r.sent = <<>> THEN NoReply ELSE reply
        /\ result' = IF opname = "create_session_sync" /\ ~IsRaised(r.result)
                     THEN JsonDumps(r.result) ELSE r.result
        /\ UNCHANGED <<waitVars, abortedAt, monitorVars, waits>>

\* create_session(session_type, repository, requirements): the optional
\* parameters at their defaults
CallCreateSession ==
    /\ op = "none"
    /\ \E session_type \in SessionTypeInputs, repository \in RepositoryInputs,
          requirements \in RequirementsInputs, reply \in CreateReplies :
        DoCreateSession("create_session",
            CreateArgs(session_type, repository, requirements, PyNone, PyNone, PyNone),
            reply)

\* create_session with context, branch and dependencies given
CallCreateSessionOptional ==
    /\ op = "none"
    /\ \E session_type \in {"implementation"}, context \in OptionalStringInputs,
          branch \in OptionalStringInputs, dependencies \in DependenciesInputs,
          reply \in FewCreateReplies :
        DoCreateSession("create_session",
            CreateArgs(session_type, <<"o", "/", "o">>, <<"r">>, context, branch, dependencies),
            reply)

\* create_session_sync(...) from the form
CallCreateSessionSync ==
    /\ op = "none"
    /\ \E context \in {<<>>, <<"c">>}, branch \in {<<>>, <<"b">>}, dependencies \in CsvInputs,
          reply \in FewCreateReplies :
        LET o == create_session_sync_args(context, branch, dependencies) IN
        DoCreateSession("create_session_sync",
            CreateArgs("implementation", <<"o", "/", "o">>, <<"r">>,
                       o.context, o.branch, o.dependencies)
              @@ [form |-> [context |-> context, branch |-> branch,
                            dependencies |-> dependencies]],
            reply)

NextCreate == CallCreateSession \/ CallCreateSessionOptional \/ CallCreateSessionSync

SpecCreate == Init /\ [][NextCreate]_vars

-----------------------------------------------------------------------------
(* get_session_status, get_session_output and wait_for_session *)

MaxTimeout == 3
MaxPoll == 2
MaxLatency == 2

\* len(x) > 0, or the exception len raises
LenPositive(x) ==
    CASE x.t = "list" -> PyBool(x.v # <<>>)
      [] x.t = "dict" -> PyBool(DOMAIN x.v # {})
      [] x.t = "str" -> PyBool(x.v # "")
      [] OTHER -> Raised("TypeError")

\* x[0], or the exception it raises
FirstItem(x) ==
    CASE x.t = "list" -> x.v[1]
      [] x.t = "str" -> PyStr("<first character>")
      [] OTHER -> Raised("KeyError")

\* x.get(k, default), or the AttributeError of a value that is no dict
AttrGet(x, k, default) ==
    IF IsRaised(x) THEN x
    ELSE IF isinstance_dict(x) THEN DictGet(x, k, default)
    ELSE Raised("AttributeError")

UnexpectedFormat(event) ==
    PyDict("message" :> PyStr("Webhook processed")
        @@ "event" :> PyStr(event)
        @@ "handlerCount" :> PyInt(1)
        @@ "results" :> PyList(<<PyDict(
               "success" :> PyBool(FALSE)
            @@ "error" :> PyStr("Unexpected response format from API"))>>))

SuccessEnvelope(event, data) ==
    PyDict("message" :> PyStr("Webhook processed")
        @@ "event" :> PyStr(event)
        @@ "handlerCount" :> PyInt(1)
        @@ "results" :> PyList(<<PyDict("success" :> PyBool(TRUE) @@ "data" :> data)>>))

\* The frame the query operations share: `"results" in result and
\* len(result.get("results", [])) > 0`, first_result = result["results"][0],
\* first_result.get("success"). Yields the value the operation returns, or the
\* first_result of a success for the operation to unpack.
Succeeded(first_result) == [t |-> "first_result", v |-> first_result]

QueryFrame(res, event) ==
    IF IsRaised(res) THEN res
    ELSE IF ~HasKey(res, "results") THEN UnexpectedFormat(event)
    ELSE LET positive == LenPositive(res.v["results"]) IN
         IF IsRaised(positive) THEN positive
         ELSE IF ~positive.v THEN UnexpectedFormat(event)
         ELSE LET first_result == FirstItem(res.v["results"])
                  success == AttrGet(first_result, "success", PyNone)
              IN  IF IsRaised(success) THEN success
                  ELSE IF Truthy(success) THEN Succeeded(first_result)
                  ELSE res

SessionFields ==
    {"id", "type", "status", "containerId", "claudeSessionId", "startedAt",
     "completedAt", "output", "error"}

StatusOnSuccess(first_result) ==
    LET session == AttrGet(AttrGet(first_result, "data", EmptyDict), "session", EmptyDict) IN
    IF IsRaised(session) THEN session
    ELSE IF ~isinstance_dict(session) THEN Raised("AttributeError")
    ELSE SuccessEnvelope("session.get", PyDict("session" :> PyDict(
             [k \in SessionFields |-> DictGet(session, k, PyNone)]
          @@ "project" :> DictGet(session, "project", EmptyDict)
          @@ "dependencies" :> DictGet(session, "dependencies", PyList(<<>>)))))

\* ClaudeOrchestrationMCP.get_session_status, from the result of _make_request
get_session_status(res) ==
    LET framed == QueryFrame(res, "session.get") IN
    IF framed.t = "first_result" THEN StatusOnSuccess(framed.v) ELSE framed

OutputOnSuccess(session_id, first_result) ==
    LET data == AttrGet(first_result, "data", EmptyDict)
        output == AttrGet(data, "output", EmptyDict)
    IN  IF IsRaised(output) THEN output
        ELSE IF ~isinstance_dict(output) THEN Raised("AttributeError")
        ELSE SuccessEnvelope("session.output", PyDict(
                 "sessionId" :> DictGet(data, "sessionId", PyStr(session_id))
              @@ "status" :> DictGet(data, "status", PyStr("completed"))
              @@ "output" :> PyDict(
                     "logs" :> DictGet(output, "logs", PyList(<<>>))
                  @@ "artifacts" :> DictGet(output, "artifacts", PyList(<<>>))
                  @@ "summary" :> DictGet(output, "summary", PyStr(""))
                  @@ "nextSteps" :> DictGet(output, "nextSteps", PyList(<<>>)))))

\* ClaudeOrchestrationMCP.get_session_output, from the result of _make_request
get_session_output(session_id, res) ==
    LET framed == QueryFrame(res, "session.output") IN
    IF framed.t = "first_result" THEN OutputOnSuccess(session_id, framed.v) ELSE framed

\* a variant that posts a start where the status query is due
StatusPayload_Start(session_id) == [type |-> "session.start", sessionId |-> session_id]

StatusPayload(session_id) == [type |-> "session.get", sessionId |-> session_id]
OutputPayload(session_id) == [type |-> "session.output", sessionId |-> session_id]

\* The return values of wait_for_session.
WaitTimeoutResult(session_id, timeout_seconds) ==
    PyDict("message" :> PyStr("Webhook processed")
        @@ "event" :> PyStr("wait_for_session")
        @@ "handlerCount" :> PyInt(1)
        @@ "results" :> PyList(<<PyDict(
               "success" :> PyBool(FALSE)
            @@ "error" :> PyFmt("Session {} did not complete within {} seconds",
                                <<session_id, timeout_seconds>>))>>))

WaitCompletedResult(session_id, duration, output) ==
    SuccessEnvelope("wait_for_session", PyDict(
           "sessionId" :> PyStr(session_id)
        @@ "status" :> PyStr("completed")
        @@ "durationSeconds" :> PyInt(duration)
        @@ "output" :> output))

WaitFailedResult(session_id, duration) ==
    SuccessEnvelope("wait_for_session", PyDict(
           "sessionId" :> PyStr(session_id)
        @@ "status" :> PyStr("failed")
        @@ "error" :> PyStr("Session failed")
        @@ "durationSeconds" :> PyInt(duration)))

\* a variant that takes a failed status query for one that reported no status
ReportedStatus_ErrorIgnored(status_response) ==
    IF IsRaised(status_response) THEN "<raised>"
    ELSE LET first_result == status_response.v["results"].v[1] IN
         IF Truthy(DictGet(first_result, "success", PyNone))
         THEN LET session_status ==
                      DictGet(DictGet(DictGet(first_result, "data", EmptyDict),
                                      "session", EmptyDict), "status", PyNone)
              IN  IF session_status.t = "str" THEN session_status.v ELSE "<none>"
         ELSE "<none>"

\* What a status response reports: the session's status when the query succeeded,
\* "<error>" when it did not.
ReportedStatus(status_response) ==
    IF IsRaised(status_response) THEN "<raised>"
    ELSE LET first_result == status_response.v["results"].v[1] IN
         IF Truthy(DictGet(first_result, "success", PyNone))
         THEN LET session_status ==
                      DictGet(DictGet(DictGet(first_result, "data", EmptyDict),
                                      "session", EmptyDict), "status", PyNone)
              IN  IF session_status.t = "str" THEN session_status.v ELSE "<none>"
         ELSE "<error>"

\* a variant in which only completed ends the loop
WaitTerminal_CompletedOnly(session_status) == session_status = "completed"

\* session_status in ["completed", "failed"]
WaitTerminal(session_status) == session_status \in {"completed", "failed"}

\* a variant that polls again at once
sleep_until_NoWait(t, poll_interval_seconds) == t

\* await asyncio.sleep(poll_interval_seconds): the clock when the loop resumes
sleep_until(t, poll_interval_seconds) == t + poll_interval_seconds

\* a variant that takes the timeout for minutes
TimeoutExceeded_Minutes(t, start, timeout_seconds) == t - start > timeout_seconds * 60

\* if asyncio.get_event_loop().time() - start_time > timeout_seconds
TimeoutExceeded(t, start, timeout_seconds) == t - start > timeout_seconds

-----------------------------------------------------------------------------
(* wait_for_session as a process: one action per stretch of code between two awaits. *)

SessionIds == {"s-1"}
TimeoutInputs == 0..MaxTimeout
PollIntervalInputs == 1..MaxPoll
Latencies == 0..MaxLatency

ServerStatuses ==
    {"running", "completed", "failed", "cancelled", "pending", "bogus-value"}

StatusBody(id, status) ==
    PyDict("results" :> PyList(<<PyDict(
           "success" :> PyBool(TRUE)
        @@ "data" :> PyDict("session" :> PyDict(
               "id" :> PyStr(id) @@ "status" :> PyStr(status))))>>))

\* What the remote API may answer to session.get.
StatusReplies(id) ==
    {JsonReply(StatusBody(id, status)) : status \in ServerStatuses}
    \cup
    { JsonReply(PyDict("success" :> PyBool(TRUE)
          @@ "data" :> PyDict("session" :> PyDict(
                 "id" :> PyStr(id) @@ "status" :> PyStr("running"))))),
      JsonReply(PyDict("results" :> PyList(<<PyDict(
             "success" :> PyBool(TRUE)
          @@ "data" :> PyDict("session" :> PyDict("id" :> PyStr(id))))>>))),
      JsonReply(PyDict("results" :> PyList(<<PyDict(
             "success" :> PyBool(FALSE) @@ "error" :> PyStr("Session not found"))>>))),
      JsonReply(PyDict("results" :> PyList(<<>>))),
      HTTPErrorReply("Read timed out"),
      InvalidJsonReply }

\* What the remote API may answer to session.output.
OutputReplies(id) ==
    { JsonReply(PyDict("results" :> PyList(<<PyDict(
             "success" :> PyBool(TRUE)
          @@ "data" :> PyDict("sessionId" :> PyStr(id)
                 @@ "output" :> PyDict("summary" :> PyStr("done"))))>>))),
      JsonReply(PyDict("success" :> PyBool(TRUE) @@ "data" :> EmptyDict)),
      JsonReply(PyDict("results" :> PyList(<<PyDict(
             "success" :> PyBool(FALSE) @@ "error" :> PyStr("Output not available"))>>))),
      JsonReply(PyDict("success" :> PyBool(TRUE) @@ "data" :> PyNone)),
      HTTPErrorReply("Read timed out") }

Last(seq) == seq[Len(seq)]

\* wait_for_session(session_id, timeout_seconds, poll_interval_seconds) is called:
\* start_time = asyncio.get_event_loop().time()
CallWaitForSession ==
    /\ op = "none"
    /\ \E session_id \in SessionIds, timeout_seconds \in TimeoutInputs,
          poll_interval_seconds \in PollIntervalInputs :
        args' = [session_id |-> session_id, timeout_seconds |-> timeout_seconds,
                 poll_interval_seconds |-> poll_interval_seconds]
    /\ op' = "wait_for_session"
    /\ start_time' = now
    /\ pc' = "loop"
    /\ UNCHANGED <<sent, lastReply, result, now, queryTimes, lastStatus, lastLatency,
                   allRunning, abortedAt, monitorVars, waits>>

\* The top of the loop: the timeout check, then the status query is posted.
WaitLoopTop ==
    /\ pc = "loop"
    /\ IF TimeoutExceeded(now, start_time, args.timeout_seconds)
       THEN /\ result' = WaitTimeoutResult(args.session_id, args.timeout_seconds)
            /\ pc' = "done"
            /\ UNCHANGED <<sent, queryTimes>>
       ELSE /\ sent' = Append(sent, StatusPayload(args.session_id))
            /\ queryTimes' = IF Len(queryTimes) = 2 THEN <<queryTimes[2], now>>
                             ELSE Append(queryTimes, now)
            /\ pc' = "get_session_status"
            /\ UNCHANGED result
    /\ UNCHANGED <<op, args, lastReply, now, start_time, lastStatus, lastLatency,
                   allRunning, abortedAt, monitorVars, waits>>

\* The status query is answered after some time, and the loop acts on it.
WaitStatusResponse ==
    /\ pc = "get_session_status"
    /\ \E latency \in Latencies, reply \in StatusReplies(args.session_id) :
        LET status_response == get_session_status(make_request(Last(sent), reply))
            session_status == ReportedStatus(status_response)
        IN  /\ now' = now + latency
            /\ lastLatency' = latency
            /\ lastReply' = reply
            /\ lastStatus' = session_status
            /\ allRunning' = (allRunning /\ session_status = "running")
            /\ IF IsRaised(status_response) \/ session_status = "<error>"
               THEN /\ result' = status_response
                    /\ pc' = "done"
                    /\ UNCHANGED sent
               ELSE IF WaitTerminal(session_status)
               THEN IF session_status = "completed"
                    THEN /\ sent' = Append(sent, OutputPayload(args.session_id))
                         /\ pc' = "get_session_output"
                         /\ UNCHANGED result
                    ELSE /\ result' = WaitFailedResult(args.session_id, now' - start_time)
                         /\ pc' = "done"
                         /\ UNCHANGED sent
               ELSE /\ pc' = "sleep"
                    /\ UNCHANGED <<sent, result>>
    /\ UNCHANGED <<op, args, start_time, queryTimes, abortedAt, monitorVars, waits>>

\* The output fetch is answered after some time.
WaitOutputResponse ==
    /\ pc = "get_session_output"
    /\ \E latency \in Latencies, reply \in OutputReplies(args.session_id) :
        LET output_response ==
                get_session_output(args.session_id, make_request(Last(sent), reply))
        IN  /\ now' = now + latency
            /\ lastLatency' = latency
            /\ lastReply' = reply
            /\ IF IsRaised(output_response)
               THEN result' = output_response /\ pc' = "done"
               ELSE LET output_result == output_response.v["results"].v[1] IN
                    IF Truthy(DictGet(output_result, "success", PyNone))
                    THEN /\ result' = WaitCompletedResult(args.session_id,
                                 now' - start_time,
                                 DictGet(DictGet(output_result, "data", EmptyDict),
                                         "output", EmptyDict))
                         /\ pc' = "done"
                    ELSE pc' = "sleep" /\ UNCHANGED result
    /\ UNCHANGED <<op, args, sent, start_time, queryTimes, lastStatus, allRunning,
                   abortedAt, monitorVars, waits>>

\* a variant whose sleep never returns
WaitSleep_NeverReturns ==
    /\ pc = "sleep"
    /\ UNCHANGED vars

\* await asyncio.sleep(poll_interval_seconds)
WaitSleep ==
    /\ pc = "sleep"
    /\ now' = sleep_until(now, args.poll_interval_seconds)
    /\ pc' = "loop"
    /\ UNCHANGED <<op, args, sent, lastReply, result, start_time, queryTimes,
                   lastStatus, lastLatency, allRunning, abortedAt, monitorVars, waits>>

NextWait ==
    \/ CallWaitForSession
    \/ WaitLoopTop
    \/ WaitStatusResponse
    \/ WaitOutputResponse
    \/ WaitSleep

SpecWait == Init /\ [][NextWait]_vars

\* The event loop runs the coroutine whenever it can go on: every request posted is
\* answered or fails within the client's timeout, and every sleep ends.
WaitFairness ==
    /\ WF_vars(WaitLoopTop)
    /\ WF_vars(WaitStatusResponse)
    /\ WF_vars(WaitOutputResponse)
    /\ WF_vars(WaitSleep)

SpecWaitFair == SpecWait /\ WaitFairness

-----------------------------------------------------------------------------
(* Two wait_for_session coroutines on one client, run by one event loop. The  *)
(* parameters and locals of each are in its own frame; the client they share  *)
(* (self.api_url, self.auth_token, self.client) holds nothing a wait writes.  *)

MaxPairTimeout == 1
MaxPairPoll == 1
MaxPairLatency == 1

PairIds == <<"s-1", "s-2">>
\* the shortest and the longest of each, so that the two waits may differ
PairTimeouts == {0, MaxPairTimeout}
PairPolls == {MaxPairPoll}
PairLatencies == {0, MaxPairLatency}

\* What the remote API may answer to the status queries and the output fetches of
\* a pair of waits.
PairStatusReplies(id) ==
    { JsonReply(StatusBody(id, "running")), JsonReply(StatusBody(id, "completed")),
      JsonReply(StatusBody(id, "failed")), HTTPErrorReply("Read timed out") }

PairOutputReplies(id) ==
    { JsonReply(PyDict("results" :> PyList(<<PyDict(
             "success" :> PyBool(TRUE)
          @@ "data" :> PyDict("sessionId" :> PyStr(id)
                 @@ "output" :> PyDict("summary" :> PyStr("done"))))>>))),
      HTTPErrorReply("Read timed out") }

\* The frame of a coroutine that has not run yet: its parameters, where it stands,
\* its start_time, the clock at which its await ends, the answers and the request
\* times it has met, and what it returned.
NewFrame(session_id, timeout_seconds, poll_interval_seconds) ==
    [session_id |-> session_id, timeout_seconds |-> timeout_seconds,
     poll_interval_seconds |-> poll_interval_seconds, pc |-> "new",
     start_time |-> 0, due |-> 0, replies |-> <<>>, latencies |-> <<>>,
     result |-> NoResult]

\* start_time = asyncio.get_event_loop().time()
wait_begin(f, t) == [f EXCEPT !.pc = "loop", !.start_time = t, !.due = t]

\* a variant that keeps start_time on the client, where the latest call overwrites it
start_time_of_OnClient(ws, i) ==
    LET begun == {ws[j].start_time : j \in {k \in DOMAIN ws : ws[k].pc # "new"}}
    IN  CHOOSE t \in begun : \A u \in begun : u <= t

\* start_time is a local of the coroutine
start_time_of(ws, i) == ws[i].start_time

\* The top of the loop: the timeout check, then the status query is posted.
wait_loop_top(f, start, latency) ==
    IF TimeoutExceeded(f.due, start, f.timeout_seconds)
    THEN [f EXCEPT !.pc = "done",
                   !.result = WaitTimeoutResult(f.session_id, f.timeout_seconds)]
    ELSE [f EXCEPT !.pc = "get_session_status", !.due = @ + latency,
                   !.latencies = Append(@, latency)]

\* The status query is answered, and the loop acts on it.
wait_status_response(f, start, reply, latency) ==
    LET status_response ==
            get_session_status(make_request(StatusPayload(f.session_id), reply))
        session_status == ReportedStatus(status_response)
        g == [f EXCEPT !.replies = Append(@, reply)]
    IN  IF IsRaised(status_response) \/ session_status = "<error>"
        THEN [g EXCEPT !.pc = "done", !.result = status_response]
        ELSE IF WaitTerminal(session_status)
        THEN IF session_status = "completed"
             THEN [g EXCEPT !.pc = "get_session_output", !.due = @ + latency,
                            !.latencies = Append(@, latency)]
             ELSE [g EXCEPT !.pc = "done",
                            !.result = WaitFailedResult(f.session_id, f.due - start)]
        ELSE [g EXCEPT !.pc = "sleep",
                       !.due = sleep_until(@, f.poll_interval_seconds)]

\* The output fetch is answered.
wait_output_response(f, start, reply) ==
    LET output_response ==
            get_session_output(f.session_id,
                               make_request(OutputPayload(f.session_id), reply))
        g == [f EXCEPT !.replies = Append(@, reply)]
    IN  IF IsRaised(output_response)
        THEN [g EXCEPT !.pc = "done", !.result = output_response]
        ELSE LET output_result == output_response.v["results"].v[1] IN
             IF Truthy(DictGet(output_result, "success", PyNone))
             THEN [g EXCEPT !.pc = "done",
                            !.result = WaitCompletedResult(f.session_id, f.due - start,
                                           DictGet(DictGet(output_result, "data", EmptyDict),
                                                   "output", EmptyDict))]
             ELSE [g EXCEPT !.pc = "sleep",
                            !.due = sleep_until(@, f.poll_interval_seconds)]

\* asyncio.sleep returns
wait_sleep_ends(f) == [f EXCEPT !.pc = "loop"]

RECURSIVE wait_alone(_, _, _)
\* wait_for_session run with nothing beside it, from frame f, on the answers and the
\* request times given: the frame where it returns, or where it needs the next one.
wait_alone(f, answers, times) ==
    CASE f.pc = "new" -> wait_alone(wait_begin(f, 0), answers, times)
      [] f.pc = "sleep" -> wait_alone(wait_sleep_ends(f), answers, times)
      [] f.pc = "loop" ->
            IF TimeoutExceeded(f.due, f.start_time, f.timeout_seconds)
            THEN wait_loop_top(f, f.start_time, 0)
            ELSE IF times = <<>> THEN f
            ELSE wait_alone(wait_loop_top(f, f.start_time, Head(times)),
                            answers, Tail(times))
      [] f.pc = "get_session_status" ->
            IF answers = <<>> THEN f
            ELSE LET g == wait_status_response(f, f.start_time, Head(answers),
                                               IF times = <<>> THEN 0 ELSE Head(times))
                 IN  wait_alone(g, Tail(answers),
                                IF g.pc = "get_session_output" /\ times # <<>>
                                THEN Tail(times) ELSE times)
      [] f.pc = "get_session_output" ->
            IF answers = <<>> THEN f
            ELSE wait_alone(wait_output_response(f, f.start_time, Head(answers)),
                            Tail(answers), times)
      [] OTHER -> f

\* asyncio.gather of two waits on one client, each with its own id, timeout and
\* poll interval
CallTwoWaits ==
    /\ op = "none"
    /\ op' = "two_waits"
    /\ \E t1 \in PairTimeouts, t2 \in PairTimeouts, p1 \in PairPolls, p2 \in PairPolls :
        waits' = <<NewFrame(PairIds[1], t1, p1), NewFrame(PairIds[2], t2, p2)>>
    /\ UNCHANGED <<args, sent, lastReply, result, waitVars, abortedAt, monitorVars>>

\* A frame together with the start_time its coroutine reads.
PairStep(i, f) ==
    /\ op = "two_waits"
    /\ waits' = [waits EXCEPT ![i] = f]
    /\ UNCHANGED <<op, args, sent, lastReply, result, waitVars, abortedAt, monitorVars>>

\* A coroutine runs for the first time.
PairBegin ==
    \E i \in DOMAIN waits :
        /\ waits[i].pc = "new"
        /\ PairStep(i, wait_begin(waits[i], now))

PairLoopTop ==
    \E i \in DOMAIN waits, latency \in PairLatencies :
        /\ waits[i].pc = "loop" /\ waits[i].due = now
        /\ PairStep(i, wait_loop_top(waits[i], start_time_of(waits, i), latency))

PairStatusResponse ==
    \E i \in DOMAIN waits, latency \in PairLatencies :
        /\ waits[i].pc = "get_session_status" /\ waits[i].due = now
        /\ \E reply \in PairStatusReplies(waits[i].session_id) :
            PairStep(i, wait_status_response(waits[i], start_time_of(waits, i),
                                             reply, latency))

PairOutputResponse ==
    \E i \in DOMAIN waits :
        /\ waits[i].pc = "get_session_output" /\ waits[i].due = now
        /\ \E reply \in PairOutputReplies(waits[i].session_id) :
            PairStep(i, wait_output_response(waits[i], start_time_of(waits, i), reply))

PairSleepEnds ==
    \E i \in DOMAIN waits :
        /\ waits[i].pc = "sleep" /\ waits[i].due = now
        /\ PairStep(i, wait_sleep_ends(waits[i]))

\* The clock goes on while every coroutine that has begun is in an await that has
\* not ended or has returned.
PairTick ==
    /\ op = "two_waits"
    /\ \E i \in DOMAIN waits : waits[i].pc \notin {"new", "done"}
    /\ \A i \in DOMAIN waits : waits[i].pc \in {"new", "done"} \/ waits[i].due > now
    /\ now' = now + 1
    /\ UNCHANGED <<op, args, sent, lastReply, result, pc, start_time, queryTimes,
                   lastStatus, lastLatency, allRunning, abortedAt, monitorVars, waits>>

NextPair ==
    \/ CallTwoWaits
    \/ PairBegin
    \/ PairLoopTop
    \/ PairStatusResponse
    \/ PairOutputResponse
    \/ PairSleepEnds
    \/ PairTick

SpecPair == Init /\ [][NextPair]_vars

-----------------------------------------------------------------------------
(* The other lifecycle operations, and every operation against the bodies the  *)
(* remote API may send.                                                        *)

\* ClaudeOrchestrationMCP.start_session, from the result of _make_request
start_session(res) ==
    IF IsRaised(res) THEN res
    ELSE IF ~HasKey(res, "results") THEN res
    ELSE LET positive == LenPositive(res.v["results"]) IN
         IF IsRaised(positive) THEN positive
         ELSE IF ~positive.v THEN res
         ELSE LET first_result == FirstItem(res.v["results"])
                  success == AttrGet(first_result, "success", PyNone)
              IN  IF IsRaised(success) THEN success
                  ELSE IF ~Truthy(success) THEN res
                  ELSE LET status == AttrGet(AttrGet(first_result, "data", EmptyDict),
                                             "status", PyStr("initializing"))
                       IN  IF IsRaised(status) THEN status
                           ELSE PyDict("message" :> PyStr("Webhook processed")
                                    @@ "event" :> PyStr("session.start")
                                    @@ "handlerCount" :> PyInt(1)
                                    @@ "results" :> PyList(<<PyDict(
                                           "success" :> PyBool(TRUE)
                                        @@ "message" :>
                                              (IF status = PyStr("initializing")
                                               THEN PyStr("Session starting")
                                               ELSE PyFmt("Session {}", <<status>>))
                                        @@ "data" :> PyDict("status" :> status))>>))

\* sessions = [s for s in sessions if s.get("status") == status]
FilterByStatus(found_sessions, status) ==
    IF ~isinstance_list(found_sessions) THEN Raised("TypeError")
    ELSE IF \E i \in DOMAIN found_sessions.v : ~isinstance_dict(found_sessions.v[i])
    THEN Raised("AttributeError")
    ELSE PyList(SelectSeq(found_sessions.v, LAMBDA x : DictGet(x, "status", PyNone) = status))

\* ClaudeOrchestrationMCP.list_sessions, from the result of _make_request
list_sessions(status, res) ==
    LET framed == QueryFrame(res, "session.list") IN
    IF framed.t # "first_result" THEN framed
    ELSE LET found_sessions == AttrGet(AttrGet(framed.v, "data", EmptyDict),
                                 "sessions", PyList(<<>>))
             wanted == IF IsRaised(found_sessions) THEN found_sessions
                       ELSE IF Truthy(status) /\ status # PyStr("all")
                       THEN FilterByStatus(found_sessions, status)
                       ELSE found_sessions
         IN  IF IsRaised(wanted) THEN wanted
             ELSE SuccessEnvelope("session.list", PyDict("sessions" :> wanted))

ListPayload(orchestration_id) ==
    IF Truthy(orchestration_id)
    THEN [type |-> "session.list", orchestrationId |-> orchestration_id]
    ELSE [type |-> "session.list"]

\* ClaudeOrchestrationMCP.create_orchestration, from the result of _make_request
create_orchestration(res) ==
    LET framed == QueryFrame(res, "orchestration.create") IN
    IF framed.t = "first_result" THEN res ELSE framed

OrchestrationPayload(name, description, repository, tasks) ==
    [type |-> "orchestration.create",
     orchestration |-> [name |-> name, description |-> description,
                        repository |-> repository, tasks |-> tasks]]

StartPayload(session_id) == [type |-> "session.start", sessionId |-> session_id]

\* The three shapes in which the remote API has delivered the same data.
ShapeA(data) == PyDict("success" :> PyBool(TRUE) @@ "data" :> data)
ShapeB(data) ==
    PyDict("results" :> PyList(<<PyDict("success" :> PyBool(TRUE) @@ "data" :> data)>>))
\* the entity under `key` wrapped again under the same key
ShapeC(data, key) ==
    ShapeB(PyDict([data.v EXCEPT ![key] = PyDict(key :> @)]))

\* The data of a session.create answer: the id under sessionId, id and session.id,
\* each absent, empty or set.
Absent == "<absent>"
CreateData(sessionId, id, session_id) ==
    PyDict((IF sessionId # Absent THEN "sessionId" :> PyStr(sessionId) ELSE <<>>)
        @@ (IF id # Absent THEN "id" :> PyStr(id) ELSE <<>>)
        @@ (IF session_id # Absent
            THEN "session" :> PyDict("id" :> PyStr(session_id)
                                  @@ "status" :> PyStr("pending"))
            ELSE <<>>))

CreateDatas ==
    {CreateData(a, b, c) : a \in {Absent, "", "s-1"}, b \in {Absent, "", "s-2"},
                           c \in {Absent, "", "s-3"}}

\* Bodies and failures the remote API may answer to any request.
CommonReplies ==
    { HTTPErrorReply("Server error '500 Internal Server Error'"),
      HTTPErrorReply("All connection attempts failed"),
      InvalidJsonReply,
      JsonReply(PyList(<<>>)),
      JsonReply(PyDict("message" :> PyStr("Webhook processed"))),
      JsonReply(PyDict("success" :> PyBool(FALSE) @@ "error" :> PyStr("Unauthorized"))),
      JsonReply(PyDict("results" :> PyList(<<PyDict(
             "success" :> PyBool(FALSE) @@ "error" :> PyStr("Session not found"))>>))),
      JsonReply(PyDict("results" :> PyList(<<>>))),
      JsonReply(PyDict("results" :> PyList(<<PyStr("ok")>>))),
      JsonReply(PyDict("results" :> PyStr("ok"))),
      JsonReply(PyDict("results" :> PyNone)),
      JsonReply(PyDict("results" :> PyList(<<PyDict("success" :> PyStr("yes"))>>))) }

WideCreateReplies ==
    CommonReplies
    \cup {JsonReply(ShapeA(d)) : d \in CreateDatas}
    \cup {JsonReply(ShapeB(d)) : d \in CreateDatas}
    \cup {JsonReply(ShapeC(d, "session")) : d \in {x \in CreateDatas : HasKey(x, "session")}}
    \cup {JsonReply(ShapeB(PyList(<<>>)))}

SessionEntity(id, status) == PyDict("id" :> PyStr(id) @@ "status" :> PyStr(status))

WideStatusReplies(id) ==
    CommonReplies
    \cup StatusReplies(id)
    \cup {JsonReply(ShapeA(PyDict("session" :> SessionEntity(id, status)))) :
             status \in ServerStatuses}
    \cup {JsonReply(ShapeC(PyDict("session" :> SessionEntity(id, status)), "session")) :
             status \in ServerStatuses}
    \cup {JsonReply(ShapeA(EmptyDict)), JsonReply(ShapeB(EmptyDict))}

StartReplies ==
    CommonReplies
    \cup { JsonReply(ShapeA(PyDict("status" :> PyStr("initializing")))),
           JsonReply(ShapeB(PyDict("status" :> PyStr("initializing")))),
           JsonReply(ShapeB(PyDict("status" :> PyStr("queued")
                                @@ "waitingFor" :> PyList(<<PyStr("s-2")>>)))),
           JsonReply(ShapeB(EmptyDict)),
           JsonReply(ShapeB(PyNone)) }

ListReplies ==
    CommonReplies
    \cup { JsonReply(ShapeA(PyDict("sessions" :> PyList(
               <<SessionEntity("s-1", "running"), SessionEntity("s-2", "completed")>>)))),
           JsonReply(ShapeB(PyDict("sessions" :> PyList(
               <<SessionEntity("s-1", "running"), SessionEntity("s-2", "completed")>>)))),
           JsonReply(ShapeB(PyDict("sessions" :> PyList(<<PyStr("s-1")>>)))),
           JsonReply(ShapeB(PyDict("sessions" :> PyNone))),
           JsonReply(ShapeB(EmptyDict)) }

OrchestrationReplies ==
    CommonReplies
    \cup { JsonReply(ShapeA(PyDict("sessions" :> PyList(
               <<SessionEntity("s-1", "pending"), SessionEntity("s-2", "pending")>>)))),
           JsonReply(ShapeB(PyDict("sessions" :> PyList(
               <<SessionEntity("s-1", "pending"), SessionEntity("s-2", "pending")>>)))) }

QuerySessionIds == {"s-1", "s-2"}

\* One call of an operation that posts one request, from its arguments to its return.
DoCall(opname, a, payload, reply, res) ==
    /\ op' = opname
    /\ args' = a
    /\ sent' = <<payload>>
    /\ lastReply' = reply
    /\ result' = res
    /\ UNCHANGED <<waitVars, abortedAt, monitorVars, waits>>

\* create_session with valid arguments, against every answer
CallCreateSessionAnswered ==
    /\ op = "none"
    /\ \E reply \in WideCreateReplies :
        DoCreateSession("create_session",
            CreateArgs("implementation", <<"o", "/", "o">>, <<"r">>, PyNone, PyNone, PyNone),
            reply)

CallStartSession ==
    /\ op = "none"
    /\ \E session_id \in QuerySessionIds, reply \in StartReplies :
        DoCall("start_session", [session_id |-> session_id], StartPayload(session_id),
               reply, start_session(make_request(StartPayload(session_id), reply)))

CallGetSessionStatus ==
    /\ op = "none"
    /\ \E session_id \in QuerySessionIds : \E reply \in WideStatusReplies(session_id) :
        DoCall("get_session_status", [session_id |-> session_id],
               StatusPayload(session_id), reply,
               get_session_status(make_request(StatusPayload(session_id), reply)))

CallGetSessionOutput ==
    /\ op = "none"
    /\ \E session_id \in QuerySessionIds :
       \E reply \in CommonReplies \cup OutputReplies(session_id) :
        DoCall("get_session_output", [session_id |-> session_id],
               OutputPayload(session_id), reply,
               get_session_output(session_id,
                                  make_request(OutputPayload(session_id), reply)))

CallListSessions ==
    /\ op = "none"
    /\ \E orchestration_id \in {PyNone, PyStr("o-1")},
          status \in {PyNone, PyStr("all"), PyStr("running")}, reply \in ListReplies :
        DoCall("list_sessions", [orchestration_id |-> orchestration_id, status |-> status],
               ListPayload(orchestration_id), reply,
               list_sessions(status, make_request(ListPayload(orchestration_id), reply)))

CallCreateOrchestration ==
    /\ op = "none"
    /\ \E reply \in OrchestrationReplies :
        LET a == [name |-> "app", description |-> "an app", repository |-> "o/o",
                  tasks |-> <<[type |-> "implementation", requirements |-> "r",
                               dependencies |-> <<>>]>>]
            payload == OrchestrationPayload(a.name, a.description, a.repository, a.tasks)
        IN  DoCall("create_orchestration", a, payload, reply,
                   create_orchestration(make_request(payload, reply)))

NextOps ==
    \/ CallCreateSessionAnswered
    \/ CallStartSession
    \/ CallGetSessionStatus
    \/ CallGetSessionOutput
    \/ CallListSessions
    \/ CallCreateOrchestration
    \/ NextWait

SpecOps == Init /\ [][NextOps]_vars

\* create_session with arguments of every kind, and start_session
NextRequests == CallCreateSession \/ CallStartSession

SpecRequests == Init /\ [][NextRequests]_vars

-----------------------------------------------------------------------------
(* The caller of wait_for_session aborts.                                      *)

\* per-request timeout of the client: httpx.AsyncClient(timeout=30.0)
client_timeout == 30

\* The wait runs as a task of the caller's event loop (awaited, or asyncio.run in the
\* caller's thread): the abort cancels it, CancelledError is raised at the await the
\* coroutine is suspended in, and nothing in wait_for_session catches it.
AbortCancelsTask ==
    /\ op = "wait_for_session" /\ abortedAt = -1
    /\ pc \in {"get_session_status", "get_session_output", "sleep"}
    /\ abortedAt' = Len(sent)
    /\ pc' = "cancelled"
    /\ result' = Raised("CancelledError")
    /\ UNCHANGED <<op, args, sent, lastReply, now, start_time, queryTimes, lastStatus,
                   lastLatency, allRunning, monitorVars, waits>>

\* The wait runs in the worker thread run_async starts when the caller's thread has
\* a running loop (executor.submit(asyncio.run, coro)): the abort reaches the caller
\* blocked in future.result(), and the coroutine goes on.
AbortLeavesWorkerThread ==
    /\ op = "wait_for_session" /\ abortedAt = -1
    /\ pc \in {"get_session_status", "get_session_output", "sleep"}
    /\ abortedAt' = Len(sent)
    /\ UNCHANGED <<op, args, sent, lastReply, result, waitVars, monitorVars, waits>>

NextAbort == NextWait \/ AbortCancelsTask \/ AbortLeavesWorkerThread

SpecAbort == Init /\ [][NextAbort]_vars

-----------------------------------------------------------------------------
(* SessionMonitor (src/demo_orchestration_monitor.py): monitor_sessions.        *)

MonitorSessionOrder == <<"s-1", "s-2">>

RECURSIVE SessionsOf(_)
\* for session in result["data"]["sessions"]: self.sessions[session["id"]] = session
SessionsOf(session_list) ==
    IF session_list = <<>> THEN <<>>
    ELSE SessionsOf(Tail(session_list))
         @@ (Head(session_list).v["id"].v :> Head(session_list))

RECURSIVE SessionsOfResults(_)
\* for result in orch_result["results"]:
\*     if result.get("success") and "sessions" in result.get("data", {})
SessionsOfResults(results) ==
    IF results = <<>> THEN <<>>
    ELSE SessionsOfResults(Tail(results))
         @@ (IF Truthy(DictGet(Head(results), "success", PyNone))
                /\ HasKey(DictGet(Head(results), "data", EmptyDict), "sessions")
             THEN SessionsOf(Head(results).v["data"].v["sessions"].v)
             ELSE <<>>)

\* monitor_sessions, "Extract session IDs": the sessions of an orchestration answer
ExtractSessions(orch_result) ==
    IF isinstance_dict(orch_result) /\ HasKey(orch_result, "results")
       /\ Truthy(orch_result.v["results"])
    THEN SessionsOfResults(orch_result.v["results"].v)
    ELSE <<>>

\* SessionMonitor.get_session_status: the session data, None, or what it raises
monitor_get_session_status(reply) ==
    CASE reply.kind = "HTTPError" -> Raised("HTTPError")
      [] reply.kind = "invalid_json" -> Raised("JSONDecodeError")
      [] reply.kind = "json" ->
            LET data == reply.body IN
            IF (isinstance_dict(data) /\ HasKey(data, "results")
                /\ Truthy(data.v["results"]))
            THEN LET first == FirstItem(data.v["results"])
                     success == AttrGet(first, "success", PyNone)
                 IN  IF IsRaised(success) THEN success
                     ELSE IF Truthy(success)
                     THEN AttrGet(AttrGet(first, "data", EmptyDict), "session", EmptyDict)
                     ELSE PyNone
            ELSE PyNone

\* session_data.get("status") not in ["completed", "failed"], negated
MonitorFinished(status) == status \in {PyStr("completed"), PyStr("failed")}

MonitorOrchestrationReplies ==
    { JsonReply(ShapeB(PyDict("sessions" :> PyList(
          <<SessionEntity("s-1", "pending"), SessionEntity("s-2", "pending")>>)))),
      JsonReply(ShapeB(PyDict("sessions" :> PyList(<<SessionEntity("s-1", "pending")>>)))),
      JsonReply(PyDict("results" :> PyList(<<PyDict(
          "success" :> PyBool(FALSE) @@ "error" :> PyStr("Unauthorized"))>>))),
      HTTPErrorReply("All connection attempts failed") }

MonitorStatusReplies(id) ==
    {JsonReply(StatusBody(id, status)) : status \in ServerStatuses}
    \cup { JsonReply(PyDict("results" :> PyList(<<PyDict(
               "success" :> PyBool(FALSE) @@ "error" :> PyStr("Session not found"))>>))),
           JsonReply(PyDict("results" :> PyList(<<>>))),
           HTTPErrorReply("Read timed out") }

\* monitor_sessions is called on a new SessionMonitor
CallMonitorSessions ==
    /\ op = "none"
    /\ op' = "monitor_sessions"
    /\ pc' = "create_orchestration"
    /\ UNCHANGED <<args, sent, lastReply, result, now, start_time, queryTimes, lastStatus,
                   lastLatency, allRunning, abortedAt, monitorVars, waits>>

\* orch_result = await self.create_orchestration(), and the sessions it names
MonitorOrchestrationResponse ==
    /\ op = "monitor_sessions" /\ pc = "create_orchestration"
    /\ \E reply \in MonitorOrchestrationReplies :
        /\ lastReply' = reply
        /\ IF reply.kind = "json"
           THEN /\ sessions' = ExtractSessions(reply.body)
                /\ pc' = "round"
                /\ UNCHANGED result
           ELSE /\ result' = Raised(reply.kind)
                /\ pc' = "raised"
                /\ UNCHANGED sessions
    /\ UNCHANGED <<op, args, sent, now, start_time, queryTimes, lastStatus, lastLatency,
                   allRunning, abortedAt, all_complete, unpolled, waits>>

\* while True: all_complete = True; for session_id in list(self.sessions.keys())
MonitorRoundStart ==
    /\ op = "monitor_sessions" /\ pc = "round"
    /\ all_complete' = TRUE
    /\ unpolled' = SelectSeq(MonitorSessionOrder, LAMBDA id : id \in DOMAIN sessions)
    /\ pc' = "poll"
    /\ UNCHANGED <<op, args, sent, lastReply, result, now, start_time, queryTimes,
                   lastStatus, lastLatency, allRunning, abortedAt, sessions, waits>>

\* The body of the for loop: one session is queried and its data replaced.
MonitorPollSession ==
    /\ op = "monitor_sessions" /\ pc = "poll" /\ unpolled # <<>>
    /\ \E reply \in MonitorStatusReplies(Head(unpolled)) :
        LET session_id == Head(unpolled)
            session_data == monitor_get_session_status(reply)
        IN  /\ lastReply' = reply
            /\ IF IsRaised(session_data)
               THEN /\ result' = session_data
                    /\ pc' = "raised"
                    /\ UNCHANGED <<sessions, all_complete, unpolled>>
               ELSE /\ unpolled' = Tail(unpolled)
                    /\ UNCHANGED <<result, pc>>
                    /\ IF Truthy(session_data)
                       THEN /\ sessions' = [sessions EXCEPT ![session_id] = session_data]
                            /\ all_complete' =
                                  (all_complete
                                   /\ MonitorFinished(DictGet(session_data, "status", PyNone)))
                       ELSE UNCHANGED <<sessions, all_complete>>
    /\ UNCHANGED <<op, args, sent, now, start_time, queryTimes, lastStatus, lastLatency,
                   allRunning, abortedAt, waits>>

\* if all_complete: break, and "All sessions complete!" is printed; else
\* await asyncio.sleep(2) and the next round (nothing in the monitor reads the clock)
MonitorRoundEnd ==
    /\ op = "monitor_sessions" /\ pc = "poll" /\ unpolled = <<>>
    /\ IF all_complete
       THEN /\ pc' = "done"
            /\ result' = PyStr("All sessions complete!")
       ELSE /\ pc' = "round"
            /\ UNCHANGED result
    /\ UNCHANGED <<op, args, sent, lastReply, now, start_time, queryTimes, lastStatus,
                   lastLatency, allRunning, abortedAt, monitorVars, waits>>

NextMonitor ==
    \/ CallMonitorSessions
    \/ MonitorOrchestrationResponse
    \/ MonitorRoundStart
    \/ MonitorPollSession
    \/ MonitorRoundEnd

SpecMonitor == Init /\ [][NextMonitor]_vars

-----------------------------------------------------------------------------
(* Reading a returned envelope. *)

IsEnvelope(r) ==
    /\ r.t = "dict" /\ HasKey(r, "results") /\ isinstance_list(r.v["results"])
    /\ Len(r.v["results"].v) > 0 /\ isinstance_dict(r.v["results"].v[1])
FirstResult(r) == r.v["results"].v[1]
IsFailure(r) == IsEnvelope(r) /\ DictGet(FirstResult(r), "success", PyNone) = PyBool(FALSE)
IsSuccess(r) == IsEnvelope(r) /\ DictGet(FirstResult(r), "success", PyNone) = PyBool(TRUE)
ErrorOf(r) == DictGet(FirstResult(r), "error", PyNone)

IsInvalidTypeFailure(r) ==
    IsFailure(r) /\ ErrorOf(r).t = "str"
    /\ ErrorOf(r).v = "Invalid session type: {}. Must be one of: {}"
IsInvalidRepositoryFailure(r) ==
    IsFailure(r) /\ ErrorOf(r) \in {InvalidRepositoryError, InvalidRepositoryPartsError}
IsEmptyRequirementsFailure(r) == IsFailure(r) /\ ErrorOf(r) = EmptyRequirementsError

\* The enumeration of session types of the specification.
SpecSessionTypes ==
    {"implementation", "analysis", "testing", "review", "coordination", "documentation"}

NumberOf(s, c) == Cardinality({i \in DOMAIN s : s[i] = c})

\* A repository string without exactly one "/" or with an empty owner or name.
BadRepository(repository) ==
    \/ NumberOf(repository, "/") # 1
    \/ repository[1] = "/"
    \/ repository[Len(repository)] = "/"

\* An empty or whitespace-only string.
Blank(s) == \A i \in DOMAIN s : s[i] \in Whitespace

CreateCalled == op \in {"create_session", "create_session_sync"}

Waiting == op = "wait_for_session"

-----------------------------------------------------------------------------
(* Claims about create_session. *)

\* C5 (as stated): create_session is rejected locally with an invalid-type failure,
\* and no request is sent, if and only if session_type is not one of implementation,
\* analysis, testing, review, coordination, documentation.
C5_SixTypesPassTypeCheck ==
    op = "create_session" =>
        ((IsInvalidTypeFailure(result) /\ sent = <<>>)
            <=> args.session_type \notin SpecSessionTypes)

\* C6: for every repository string that does not have exactly one "/" separator, or
\* that has an empty owner or name side, create_session with a type the type check
\* accepts returns an invalid-repository failure and sends no request.
C6_BadRepositoryRejected ==
    (op = "create_session" /\ ~SessionTypeRejected(args.session_type)
        /\ BadRepository(args.repository))
    => (IsInvalidRepositoryFailure(result) /\ sent = <<>>)

C6_Witness ==
    /\ op = "create_session" /\ args.session_type = "implementation"
    /\ args.repository = <<"o", "/", "o", "/", "o">>
    /\ IsInvalidRepositoryFailure(result) /\ sent = <<>>

\* C7: for every empty or whitespace-only requirements string, create_session with an
\* accepted type and a well-formed repository returns an empty-requirements failure
\* and sends no request.
C7_BlankRequirementsRejected ==
    (op = "create_session" /\ ~SessionTypeRejected(args.session_type)
        /\ ~BadRepository(args.repository) /\ Blank(args.requirements))
    => (IsEmptyRequirementsFailure(result) /\ sent = <<>>)

C7_Witness ==
    /\ op = "create_session" /\ args.session_type = "testing"
    /\ args.repository = <<"o", "/", "o">> /\ args.requirements = <<" ", "\t">>
    /\ IsEmptyRequirementsFailure(result) /\ sent = <<>>

\* C8: the checks run in the order type, repository, requirements and the first one
\* that fails decides the failure returned: a rejected type yields the invalid-type
\* failure whatever the repository and requirements are; an accepted type with a bad
\* repository yields the invalid-repository failure whatever the requirements are;
\* only then a blank requirements string yields the empty-requirements failure; and
\* a request is sent exactly when no check fails.
C8_FirstFailingCheckWins ==
    op = "create_session" =>
        /\ SessionTypeRejected(args.session_type) => IsInvalidTypeFailure(result)
        /\ (~SessionTypeRejected(args.session_type) /\ BadRepository(args.repository))
              => IsInvalidRepositoryFailure(result)
        /\ (~SessionTypeRejected(args.session_type) /\ ~BadRepository(args.repository)
              /\ Blank(args.requirements)) => IsEmptyRequirementsFailure(result)
        /\ sent = <<>> <=> \/ SessionTypeRejected(args.session_type)
                           \/ BadRepository(args.repository)
                           \/ Blank(args.requirements)

C8_Witness ==
    /\ op = "create_session" /\ args.session_type = "analysis"
    /\ args.repository = <<"o", "/">> /\ args.requirements = <<" ">>
    /\ IsInvalidRepositoryFailure(result)

\* C9 (as stated): the dependencies list sent in the session.create payload is the
\* input list with every blank (empty or whitespace-only) entry and every entry equal
\* to "none" ignoring case removed, the remaining entries in their original order.
C9_BlankAndNoneDependenciesDropped ==
    (CreateCalled /\ sent # <<>>) =>
        sent[1].session.dependencies =
            SelectSeq(IF args.dependencies = PyNone THEN <<>> ELSE args.dependencies.v,
                      LAMBDA d : ~Blank(d) /\ lower(d) # <<"n", "o", "n", "e">>)

\* "none" in any mix of upper and lower case
IsNoneToken(d) ==
    /\ Len(d) = 4
    /\ d[1] \in {"n", "N"} /\ d[2] \in {"o", "O"}
    /\ d[3] \in {"n", "N"} /\ d[4] \in {"e", "E"}

\* C9 (amended): the dependencies list sent in the session.create payload is the
\* input list with every empty entry and every entry equal to "none" ignoring case
\* removed, the remaining entries (whitespace-only ones among them) in their
\* original order.
C9_EmptyAndNoneDependenciesDropped ==
    (CreateCalled /\ sent # <<>>) =>
        sent[1].session.dependencies =
            SelectSeq(IF args.dependencies = PyNone THEN <<>> ELSE args.dependencies.v,
                      LAMBDA d : d # <<>> /\ ~IsNoneToken(d))

C9_Witness ==
    /\ op = "create_session" /\ sent # <<>>
    /\ args.dependencies = PyList(<< <<"a">>, <<>>, <<"N", "o", "n", "e">>, <<"b">> >>)
    /\ sent[1].session.dependencies = << <<"a">>, <<"b">> >>

\* The context or branch the caller supplied: the argument of create_session, the
\* form field of create_session_sync.
SuppliedNonEmpty(field) ==
    IF op = "create_session_sync"
    THEN args.form[field] # <<>>
    ELSE args[field] \notin {PyNone, PyChars(<<>>)}

\* C10: in the session.create payload the project object has a context key exactly
\* when a non-empty context was supplied and a branch key exactly when a non-empty
\* branch was supplied, with the supplied value; neither is ever sent as an empty
\* string or null.
C10_OptionalFieldsOmitted ==
    (CreateCalled /\ sent # <<>>) =>
        LET project == sent[1].session.project IN
        \A field \in {"context", "branch"} :
            /\ field \in DOMAIN project <=> SuppliedNonEmpty(field)
            /\ field \in DOMAIN project =>
                  /\ project[field] = args[field]
                  /\ project[field] \notin {PyNone, PyChars(<<>>)}

C10_Witness ==
    /\ op = "create_session" /\ sent # <<>>
    /\ args.context = PyChars(<<>>) /\ args.branch = PyChars(<<"c">>)
    /\ DOMAIN sent[1].session.project = {"repository", "requirements", "branch"}

-----------------------------------------------------------------------------
(* Claims about the answers of the remote API. *)

SessionDatas ==
    {PyDict("session" :> SessionEntity(id, status)) :
        id \in QuerySessionIds, status \in ServerStatuses}
    \cup {d \in CreateDatas : HasKey(d, "session")}

\* What the operation called returns when the request in flight is answered by reply.
ResultFor(reply) ==
    IF op = "create_session" THEN CreateResult(make_request(sent[1], reply))
    ELSE get_session_status(make_request(sent[1], reply))

RECURSIVE FirstNonEmpty(_)
FirstNonEmpty(ids) ==
    IF ids = <<>> THEN Absent
    ELSE IF Head(ids) \notin {Absent, ""} THEN Head(ids)
    ELSE FirstNonEmpty(Tail(ids))

\* The session.create answers that say success, with the ids they carry.
SuccessAnswers(sessionId, id, session_id) ==
    {JsonReply(ShapeA(CreateData(sessionId, id, session_id))),
     JsonReply(ShapeB(CreateData(sessionId, id, session_id)))}

IdKeyValues == {Absent, "", "s-1", "s-2", "s-3"}

ReturnedSessionId(r) == DictGet(DictGet(FirstResult(r), "data", EmptyDict), "sessionId", PyNone)

\* C12 (as stated): the session id of a successful create_session result is the first
\* non-empty value among data.sessionId, data.id and data.session.id of the answer,
\* unchanged, and an answer with the id under any of the three yields a success.
C12_IdFromThreeKeys ==
    (op = "create_session" /\ sent # <<>>) =>
        \A a, b, c \in IdKeyValues :
            (lastReply \in SuccessAnswers(a, b, c) /\ FirstNonEmpty(<<a, b, c>>) # Absent)
            => /\ IsSuccess(result)
               /\ ReturnedSessionId(result) = PyStr(FirstNonEmpty(<<a, b, c>>))

\* C12 (amended): the session id of a successful create_session result is the first
\* non-empty value among data.sessionId and data.session.id of the answer, unchanged,
\* and an answer with the id under either of the two yields a success.
C12_IdFromTwoKeys ==
    (op = "create_session" /\ sent # <<>>) =>
        \A a, b, c \in IdKeyValues :
            (lastReply \in SuccessAnswers(a, b, c) /\ FirstNonEmpty(<<a, c>>) # Absent)
            => /\ IsSuccess(result)
               /\ ReturnedSessionId(result) = PyStr(FirstNonEmpty(<<a, c>>))

C12_Witness ==
    /\ op = "create_session"
    /\ lastReply = JsonReply(ShapeB(CreateData("", "s-2", "s-3")))
    /\ IsSuccess(result) /\ ReturnedSessionId(result) = PyStr("s-3")

\* The answer says success: a flat body with a true success, or an envelope whose
\* first result has one.
AnswerSaysSuccess(reply) ==
    /\ reply.kind = "json" /\ isinstance_dict(reply.body)
    /\ \/ /\ HasKey(reply.body, "success") /\ ~HasKey(reply.body, "results")
          /\ reply.body.v["success"] = PyBool(TRUE)
       \/ /\ IsEnvelope(reply.body)
          /\ DictGet(FirstResult(reply.body), "success", PyNone) = PyBool(TRUE)

AnswerData(reply) ==
    IF HasKey(reply.body, "results")
    THEN DictGet(FirstResult(reply.body), "data", EmptyDict)
    ELSE DictGet(reply.body, "data", EmptyDict)

\* A non-empty string under the key, or under the key of the object under `inside`.
HasIdUnder(data, inside, key) ==
    LET holder == IF inside = "" THEN data ELSE DictGet(data, inside, PyNone) IN
    /\ isinstance_dict(holder) /\ HasKey(holder, key)
    /\ holder.v[key].t = "str" /\ holder.v[key].v # ""

NoIdInAnswer(reply) ==
    LET data == AnswerData(reply) IN
    \/ ~isinstance_dict(data)
    \/ /\ ~HasIdUnder(data, "", "sessionId") /\ ~HasIdUnder(data, "", "id")
       /\ ~HasIdUnder(data, "session", "id")

\* C13: when the answer to session.create says success but carries no session id
\* under sessionId, id or session.id, create_session returns a failure; and a success
\* result of create_session always carries a session id.
C13_NoSuccessWithoutSessionId ==
    (op = "create_session" /\ sent # <<>>) =>
        /\ (AnswerSaysSuccess(lastReply) /\ NoIdInAnswer(lastReply)) => IsFailure(result)
        /\ IsSuccess(result) =>
              /\ ReturnedSessionId(result).t = "str"
              /\ ReturnedSessionId(result).v # ""

C13_Witness ==
    /\ op = "create_session"
    /\ lastReply = JsonReply(ShapeB(CreateData(Absent, Absent, "")))
    /\ IsFailure(result)
    /\ ErrorOf(result) = PyStr("Session ID not found in API response")

\* The statuses of the specification.
KnownStatuses ==
    {"pending", "queued", "initializing", "running", "completed", "failed", "cancelled"}

ReportedSessionStatus(r) ==
    DictGet(DictGet(DictGet(FirstResult(r), "data", EmptyDict), "session", EmptyDict),
            "status", PyNone)

\* C14 (as stated): when the answer to session.get carries a status outside the known
\* ones, get_session_status reports the status unknown, and never failed or pending.
C14_UnrecognizedStatusIsUnknown ==
    op = "get_session_status" =>
        \A status \in ServerStatuses \ KnownStatuses :
            lastReply = JsonReply(StatusBody(args.session_id, status))
            => /\ IsSuccess(result)
               /\ ReportedSessionStatus(result) = PyStr("unknown")

\* The operations that post one request.
SingleRequestOps ==
    {"create_session", "start_session", "get_session_status", "get_session_output",
     "list_sessions", "create_orchestration"}

CarriesMessage(r, reply) ==
    IsFailure(r) /\ ErrorOf(r) = PyFmt("API request failed: {}", <<reply.msg>>)

\* What the query wait_for_session awaits returns to it, given its answer.
AwaitedQueryResult ==
    IF Last(sent).type = "session.get"
    THEN get_session_status(make_request(Last(sent), lastReply))
    ELSE get_session_output(args.session_id, make_request(Last(sent), lastReply))

\* C16: when the request of an operation fails with a non-2xx status or a transport
\* failure, the operation returns a failure result whose error carries the message of
\* the failure, and raises nothing. Within wait_for_session this is so of the query
\* whose request failed, and a failed status query is what the wait returns.
C16_TransportFailureIsAFailureResult ==
    (sent # <<>> /\ lastReply.kind = "HTTPError") =>
        /\ ~IsRaised(result)
        /\ op \in SingleRequestOps => CarriesMessage(result, lastReply)
        /\ (Waiting /\ pc \notin {"get_session_status", "get_session_output"}) =>
              /\ CarriesMessage(AwaitedQueryResult, lastReply)
              /\ Last(sent).type = "session.get"
                    => (pc = "done" /\ CarriesMessage(result, lastReply))

C16_Witness ==
    /\ op = "start_session" /\ lastReply = HTTPErrorReply("All connection attempts failed")
    /\ IsFailure(result)
    /\ ErrorOf(result) = PyFmt("API request failed: {}", <<"All connection attempts failed">>)

\* The canonical envelope: a non-empty results list whose first element is a mapping
\* with a boolean success.
IsCanonical(r) ==
    /\ IsEnvelope(r)
    /\ DictGet(FirstResult(r), "success", PyNone) \in {PyBool(TRUE), PyBool(FALSE)}

\* C17 (as stated): whatever JSON mapping the remote API answers, the result an
\* operation returns is in the canonical envelope.
C17_OnlyCanonicalEnvelopes ==
    (op \in SingleRequestOps \cup {"wait_for_session"} /\ result # NoResult
        /\ lastReply.kind = "json" /\ isinstance_dict(lastReply.body))
    => IsCanonical(result)

-----------------------------------------------------------------------------
(* Claims about the monitor, the request timeout and the caller's abort. *)

HeldStatus(held, id) == DictGet(held[id], "status", PyNone)

TerminalStatuses == {PyStr("completed"), PyStr("failed"), PyStr("cancelled")}

\* C15 (as stated): once the status held for a session is completed, failed or
\* cancelled, no later answer replaces it by a different status.
C15_HeldTerminalStatusKept ==
    [][\A id \in DOMAIN sessions :
          (id \in DOMAIN sessions' /\ HeldStatus(sessions, id) \in TerminalStatuses)
          => HeldStatus(sessions', id) = HeldStatus(sessions, id)]_vars

\* C18 (as stated): when the monitor reports that all sessions are complete, every
\* session of the group is held as completed.
C18_AllCompleteOnlyIfEveryMemberCompleted ==
    (op = "monitor_sessions" /\ pc = "done") =>
        \A id \in DOMAIN sessions : HeldStatus(sessions, id) = PyStr("completed")

\* C19 (as stated): the timeout of a single request is strictly shorter than the
\* timeout_seconds of the wait.
C19_RequestTimeoutShorterThanWaitTimeout ==
    Waiting => client_timeout < args.timeout_seconds

\* C20 (as stated): once the caller has aborted the wait, no further request is
\* posted, no sleep completes, and what the wait ends with is a cancellation, neither
\* the timeout outcome nor a completed outcome.
C20_AbortStopsTheLoop ==
    (Waiting /\ abortedAt >= 0) =>
        /\ Len(sent) = abortedAt
        /\ pc # "loop"
        /\ pc \in {"done", "cancelled"} => result = Raised("CancelledError")

-----------------------------------------------------------------------------
(* Claims about wait_for_session. *)

IsTimeoutOutcome(r) ==
    IsFailure(r) /\ ErrorOf(r).t = "str"
    /\ ErrorOf(r).v = "Session {} did not complete within {} seconds"

\* C1 (as stated): a wait on a session whose every status query reports running
\* returns the timeout outcome, never another one, and has returned no later than
\* timeout_seconds plus one poll_interval_seconds after the call.
C1_TimeoutWithinOnePollInterval ==
    (Waiting /\ allRunning) =>
        /\ now - start_time <= args.timeout_seconds + args.poll_interval_seconds
        /\ pc = "done" => IsTimeoutOutcome(result)

\* C1 (amended): a wait on a session whose every status query reports running
\* returns the timeout outcome, never another one, and has returned no later than
\* timeout_seconds plus one poll_interval_seconds plus the time its latest status
\* request took after the call.
C1_TimeoutWithinPollIntervalAndRequest ==
    (Waiting /\ allRunning) =>
        /\ now - start_time
              <= args.timeout_seconds + args.poll_interval_seconds + lastLatency
        /\ pc = "done" => IsTimeoutOutcome(result)

C1_Witness ==
    /\ Waiting /\ allRunning /\ pc = "done" /\ IsTimeoutOutcome(result)
    /\ lastStatus = "running" /\ lastLatency > 0
    /\ now - start_time > args.timeout_seconds + args.poll_interval_seconds

\* C2 (as stated): once a status query has reported completed, the loop is waiting
\* for its one output fetch or has returned, whatever the output fetch returns: no
\* sleep and no further status query follow.
C2_CompletedEndsTheWait ==
    (Waiting /\ lastStatus = "completed") =>
        /\ pc \in {"get_session_output", "done"}
        /\ Last(sent) = OutputPayload(args.session_id)

\* C3 (as stated): once a status query has reported cancelled, the wait has returned,
\* without an output fetch and without a further status query.
C3_CancelledEndsTheWait ==
    (Waiting /\ lastStatus = "cancelled") =>
        /\ pc = "done"
        /\ Last(sent) = StatusPayload(args.session_id)

\* C4: any two consecutive status queries of one wait are at least
\* poll_interval_seconds apart.
C4_QueriesAtLeastPollIntervalApart ==
    (Waiting /\ Len(queryTimes) = 2) =>
        queryTimes[2] - queryTimes[1] >= args.poll_interval_seconds

C4_Witness ==
    /\ Waiting /\ Len(queryTimes) = 2 /\ pc = "get_session_status"
    /\ lastStatus = "pending" /\ args.poll_interval_seconds = 2
    /\ queryTimes[2] - queryTimes[1] = 2

-----------------------------------------------------------------------------
(* Claims about what the operations return for what the remote API answered. *)

ReturnedData(r) == DictGet(FirstResult(r), "data", PyNone)

\* The answer queues the session: it says success and its data lists, under
\* waitingFor, the dependencies that are unmet.
QueuedAnswer(reply) ==
    /\ AnswerSaysSuccess(reply) /\ isinstance_dict(AnswerData(reply))
    /\ HasKey(AnswerData(reply), "waitingFor")

\* C22 (as stated): when the answer to session.start queues the session, the data of
\* the result of start_session carries the waitingFor field of the answer.
C22_StartResultCarriesWaitingFor ==
    (op = "start_session" /\ QueuedAnswer(lastReply)) =>
        /\ IsSuccess(result) /\ isinstance_dict(ReturnedData(result))
        /\ HasKey(ReturnedData(result), "waitingFor")
        /\ ReturnedData(result).v["waitingFor"] = AnswerData(lastReply).v["waitingFor"]

\* C23 (as stated): a successful result of create_session holds the id of the new
\* session, a non-empty string, at results[0].data.session.id.
C23_IdAtDataSessionId ==
    (op = "create_session" /\ IsSuccess(result)) =>
        /\ isinstance_dict(ReturnedData(result))
        /\ HasIdUnder(ReturnedData(result), "session", "id")

\* The answer is a JSON mapping that is no flat body to wrap and whose results are
\* absent, no list, empty, or begin with something that is no mapping.
MalformedResults(reply) ==
    /\ reply.kind = "json" /\ isinstance_dict(reply.body)
    /\ HasKey(reply.body, "results") \/ ~HasKey(reply.body, "success")
    /\ ~IsEnvelope(reply.body)

\* C24 (as stated): an operation answered with malformed results returns a failure
\* result: it raises nothing and returns no success, nor the answer as it came.
C24_MalformedResultsIsAFailure ==
    (op \in SingleRequestOps /\ sent # <<>> /\ MalformedResults(lastReply)) =>
        IsFailure(result)

\* The key of the data under which the answer to the operation holds its entity.
EntityKey(opname) ==
    CASE opname = "get_session_status" -> "session"
      [] opname = "get_session_output" -> "output"
      [] opname = "list_sessions" -> "sessions"

\* C25 (as stated): get_session_status, get_session_output and list_sessions return
\* a failure result when the answer says success and its data lacks the entity.
C25_MissingEntityIsAFailure ==
    (/\ op \in {"get_session_status", "get_session_output", "list_sessions"}
     /\ AnswerSaysSuccess(lastReply) /\ isinstance_dict(AnswerData(lastReply))
     /\ ~HasKey(AnswerData(lastReply), EntityKey(op)))
    => IsFailure(result)

-----------------------------------------------------------------------------
(* Claims about the requests of wait_for_session and how it ends. *)

\* C26: as soon as a status query reports failed, wait_for_session returns a result
\* whose status is failed: its latest request is that status query, so no output
\* fetch and no status query follow it.
C26_FailedEndsTheWait ==
    (Waiting /\ lastStatus = "failed") =>
        /\ pc = "done"
        /\ IsSuccess(result) /\ isinstance_dict(ReturnedData(result))
        /\ DictGet(ReturnedData(result), "status", PyNone) = PyStr("failed")
        /\ Last(sent).type = "session.get"

C26_Witness ==
    /\ Waiting /\ lastStatus = "failed" /\ pc = "done" /\ Len(sent) = 2
    /\ result = WaitFailedResult(args.session_id, now - start_time)

\* C27: every request wait_for_session sends, on every path, is a session.get or a
\* session.output for the session id it was given.
C27_WaitOnlyQueries ==
    Waiting =>
        \A i \in DOMAIN sent :
            /\ sent[i].type \in {"session.get", "session.output"}
            /\ sent[i].sessionId = args.session_id

C27_Witness ==
    /\ Waiting /\ pc = "done" /\ IsTimeoutOutcome(result)
    /\ lastStatus = "pending" /\ Len(sent) >= 2
    /\ \E i \in DOMAIN sent : sent[i].type = "session.output"

\* C28: one call of create_session or start_session sends at most one request:
\* create_session exactly one when its arguments pass the local checks and none when
\* they do not, start_session exactly one; a request that failed is not sent again.
C28_AtMostOneRequest ==
    /\ op = "create_session" =>
          Len(sent) = IF \/ SessionTypeRejected(args.session_type)
                         \/ BadRepository(args.repository)
                         \/ Blank(args.requirements)
                      THEN 0 ELSE 1
    /\ op = "start_session" => Len(sent) = 1

C28_Witness ==
    /\ op = "create_session" /\ Len(sent) = 1 /\ lastReply.kind = "HTTPError"
    /\ IsFailure(result) /\ args.session_type = "analysis"

\* The latest request of the wait is a status query, it has been answered, and
\* get_session_status made of the answer a result that is no success: the request
\* failed in the transport, or the body does not say success.
StatusQueryFailed ==
    /\ Waiting /\ sent # <<>> /\ Last(sent).type = "session.get"
    /\ pc # "get_session_status"
    /\ ~IsRaised(AwaitedQueryResult)
    /\ ~Truthy(DictGet(FirstResult(AwaitedQueryResult), "success", PyNone))

TimeoutElapsed ==
    IsTimeoutOutcome(result) /\ now - start_time > args.timeout_seconds

\* C29 (as stated): wait_for_session has returned only when a status query reported
\* a terminal status or the timeout has elapsed; after a status query that failed the
\* wait goes on, and ends only by one of the two.
C29_FailedStatusQueryDoesNotEndTheWait ==
    (Waiting /\ pc = "done" /\ ~IsRaised(result)) =>
        \/ lastStatus \in {"completed", "failed", "cancelled"} /\ ~StatusQueryFailed
        \/ TimeoutElapsed

\* C29 (amended): wait_for_session has returned only when a status query reported
\* completed or failed, when the timeout has elapsed, or when a status query failed;
\* a status query that fails ends the wait at once, and the failure result of that
\* query is what the wait returns.
C29_FailedStatusQueryEndsTheWait ==
    /\ (Waiting /\ pc = "done" /\ ~IsRaised(result)) =>
          \/ lastStatus \in {"completed", "failed"}
          \/ TimeoutElapsed
          \/ StatusQueryFailed
    /\ StatusQueryFailed =>
          /\ pc = "done" /\ ~IsSuccess(result) /\ ~IsTimeoutOutcome(result)
          /\ result = AwaitedQueryResult

C29_Witness ==
    /\ StatusQueryFailed /\ pc = "done" /\ Len(sent) = 2
    /\ lastReply = HTTPErrorReply("Read timed out")
    /\ CarriesMessage(result, lastReply)
    /\ now - start_time < args.timeout_seconds

-----------------------------------------------------------------------------
(* Claims about two waits run together. *)

\* A wait alone, given the parameters of the frame and the answers and request
\* times the frame met.
AloneOn(f) ==
    wait_alone(NewFrame(f.session_id, f.timeout_seconds, f.poll_interval_seconds),
               f.replies, f.latencies)

====
